---- MODULE Spec2Model ----
(***************************************************************************)
(* PromptArchitect Pro: client-side session controller, usage meter,       *)
(* history store and response normalizer of src/src/App.tsx.               *)
(*                                                                         *)
(* Strings are sequences of tokens.  A token is either one character of    *)
(* user or collaborator data (" ", "\n", "a", ...) or one literal fragment  *)
(* of the program text ("AI Role:", "Task:", ...).  Whitespace is always a  *)
(* token of its own, so trim() acts on the ends of the sequence exactly as *)
(* String.prototype.trim acts on the ends of the string.                   *)
(*                                                                         *)
(* JSON values are tagged records [t, v]; objects are sequences of         *)
(* <<key, value>> pairs in insertion order.                                *)
(***************************************************************************)
EXTENDS Integers, Sequences, FiniteSets, TLC

\* ------------------------------------------------------------------------
\* Program constants
\* ------------------------------------------------------------------------
FREE_DAILY_LIMIT == 3

FREE_HISTORY_LIMIT == 10

\* ------------------------------------------------------------------------
\* Bounds of the model
\* ------------------------------------------------------------------------
\* last calendar day the model lets the local date reach (days are 1..MaxDay)
MaxDay == 2

\* last value of the millisecond clock Date.now()
MaxNow == 2

\* number of identifiers uid() hands out, that is, of generations that commit
MaxIds == 1

\* number of handleArchitect calls that may be suspended at once when the
\* handler is invoked directly, without the Generate button in front of it
MaxInflight == 1

\* ------------------------------------------------------------------------
\* Strings
\* ------------------------------------------------------------------------
WS == {" ", "\n", "\t"}

Trim(s) ==
  IF \A i \in 1..Len(s) : s[i] \in WS
  THEN <<>>
  ELSE LET first == CHOOSE i \in 1..Len(s) :
                      s[i] \notin WS /\ \A j \in 1..(i-1) : s[j] \in WS
           last  == CHOOSE i \in 1..Len(s) :
                      s[i] \notin WS /\ \A j \in (i+1)..Len(s) : s[j] \in WS
       IN  SubSeq(s, first, last)

RECURSIVE Join(_, _)
Join(parts, sep) ==
  IF parts = <<>> THEN <<>>
  ELSE IF Len(parts) = 1 THEN parts[1]
  ELSE parts[1] \o sep \o Join(Tail(parts), sep)

RECURSIVE Spaces(_)
Spaces(n) == IF n <= 0 THEN <<>> ELSE <<" ">> \o Spaces(n - 1)

\* ------------------------------------------------------------------------
\* JSON values
\* ------------------------------------------------------------------------
Undefined == [t |-> "undef", v |-> 0]

JNull == [t |-> "null", v |-> 0]

JBool(b) == [t |-> "bool", v |-> b]

JNum(n) == [t |-> "num", v |-> n]

JStr(s) == [t |-> "str", v |-> s]

JArr(a) == [t |-> "arr", v |-> a]

JObj(pairs) == [t |-> "obj", v |-> pairs]

IsString(x) == x.t = "str"

IsArray(x) == x.t = "arr"

IsNullish(x) == x.t \in {"undef", "null"}

Truthy(x) ==
  CASE x.t \in {"undef", "null"} -> FALSE
    [] x.t = "bool" -> x.v
    [] x.t = "num"  -> x.v # 0
    [] x.t = "str"  -> x.v # <<>>
    [] OTHER        -> TRUE

HasKey(x, k) == x.t = "obj" /\ \E i \in 1..Len(x.v) : x.v[i][1] = k

\* x?.[k] : property read; undefined on anything but an object holding k
Get(x, k) ==
  IF HasKey(x, k)
  THEN x.v[CHOOSE i \in 1..Len(x.v) : x.v[i][1] = k][2]
  ELSE Undefined

\* obj[k] = val : keeps the position of an existing key, else appends
Put(pairs, k, val) ==
  IF \E i \in 1..Len(pairs) : pairs[i][1] = k
  THEN [i \in 1..Len(pairs) |-> IF pairs[i][1] = k THEN <<k, val>> ELSE pairs[i]]
  ELSE Append(pairs, <<k, val>>)

\* a ?? b
Coalesce(a, b) == IF IsNullish(a) THEN b ELSE a

RECURSIVE SelectJ(_, _)
SelectJ(s, tag) ==
  IF s = <<>> THEN <<>>
  ELSE IF s[1].t = tag THEN <<s[1]>> \o SelectJ(Tail(s), tag)
  ELSE SelectJ(Tail(s), tag)

\* String(x)
RECURSIVE ToStr(_)
ToStr(x) ==
  CASE x.t = "undef" -> <<"undefined">>
    [] x.t = "null"  -> <<"null">>
    [] x.t = "bool"  -> IF x.v THEN <<"true">> ELSE <<"false">>
    [] x.t = "num"   -> <<ToString(x.v)>>
    [] x.t = "str"   -> x.v
    [] x.t = "arr"   ->
         Join([i \in 1..Len(x.v) |->
                 IF IsNullish(x.v[i]) THEN <<>> ELSE ToStr(x.v[i])], <<",">>)
    [] OTHER         -> <<"[object Object]">>

\* String(x) throws a TypeError: an object parsed from JSON with a key
\* "toString" of its own hides Object.prototype.toString behind a value that
\* cannot be called, and valueOf gives back the object; an array joins the
\* String() of its elements, null aside
RECURSIVE StringThrows(_)
StringThrows(x) ==
  CASE x.t = "obj" -> HasKey(x, "toString")
    [] x.t = "arr" -> \E i \in 1..Len(x.v) : ~IsNullish(x.v[i]) /\ StringThrows(x.v[i])
    [] OTHER       -> FALSE

\* the characters of a string inside a JSON document: newline and tab escaped
Escape(s) ==
  [i \in 1..Len(s) |->
     CASE s[i] = "\n" -> "\\n"
       [] s[i] = "\t" -> "\\t"
       [] OTHER       -> s[i]]

\* JSON.stringify(x, null, 2), at nesting depth d
RECURSIVE Stringify(_, _)
Stringify(x, d) ==
  CASE x.t \in {"undef", "null"} -> <<"null">>
    [] x.t = "bool" -> IF x.v THEN <<"true">> ELSE <<"false">>
    [] x.t = "num"  -> <<ToString(x.v)>>
    [] x.t = "str"  -> <<"\"">> \o Escape(x.v) \o <<"\"">>
    [] x.t = "arr"  ->
         IF x.v = <<>> THEN <<"[]">>
         ELSE <<"[", "\n">>
              \o Join([i \in 1..Len(x.v) |->
                         Spaces(2 * (d + 1)) \o Stringify(x.v[i], d + 1)],
                      <<",", "\n">>)
              \o <<"\n">> \o Spaces(2 * d) \o <<"]">>
    [] OTHER ->
         IF x.v = <<>> THEN <<"{}">>
         ELSE <<"{", "\n">>
              \o Join([i \in 1..Len(x.v) |->
                         Spaces(2 * (d + 1)) \o <<"\"", x.v[i][1], "\"", ":", " ">>
                         \o Stringify(x.v[i][2], d + 1)],
                      <<",", "\n">>)
              \o <<"\n">> \o Spaces(2 * d) \o <<"}">>

\* ------------------------------------------------------------------------
\* Response Normalizer
\* ------------------------------------------------------------------------
\* pick(keys): first key whose value is a string that is non-empty once trimmed
RECURSIVE pick(_, _)
pick(data, keys) ==
  IF keys = <<>> THEN <<>>
  ELSE LET v == Get(data, keys[1])
       IN  IF IsString(v) /\ Trim(v.v) # <<>>
           THEN Trim(v.v)
           ELSE pick(data, Tail(keys))

\* the lines pushed for constraints / output format / follow-ups
ListSection(label, v) ==
  IF ~Truthy(v) THEN <<>>
  ELSE << <<"\n", label>> >>
       \o (IF IsArray(v)
           THEN [i \in 1..Len(v.v) |-> <<"-", " ">> \o ToStr(v.v[i])]
           ELSE << ToStr(v) >>)

\* building the lines of a section throws
ListSectionThrows(v) ==
  /\ Truthy(v)
  /\ IF IsArray(v)
     THEN \E i \in 1..Len(v.v) : StringThrows(v.v[i])
     ELSE StringThrows(v)

\* toCopyReadyPrompt(data) throws instead of returning
toCopyReadyPromptThrows(data) ==
  /\ Truthy(data)
  /\ ~(IsString(Get(data, "prompt")) /\ Trim(Get(data, "prompt").v) # <<>>)
  /\ \/ ListSectionThrows(Coalesce(Get(data, "Constraints"), Get(data, "constraints")))
     \/ ListSectionThrows(Coalesce(Get(data, "Output Format"),
                            Coalesce(Get(data, "output_format"), Get(data, "outputFormat"))))
     \/ ListSectionThrows(Coalesce(Get(data, "Follow-up Questions"),
                            Coalesce(Get(data, "follow_up_questions"), Get(data, "followUps"))))

toCopyReadyPromptUntrimmed(data) ==
  IF ~Truthy(data) THEN <<"No prompt generated.">>
  ELSE IF IsString(Get(data, "prompt")) /\ Trim(Get(data, "prompt").v) # <<>>
  THEN Get(data, "prompt").v
  ELSE Stringify(data, 0)

toCopyReadyPrompt(data) ==
  IF ~Truthy(data) THEN <<"No prompt generated.">>
  ELSE IF IsString(Get(data, "prompt")) /\ Trim(Get(data, "prompt").v) # <<>>
  THEN Trim(Get(data, "prompt").v)
  ELSE
    LET role == pick(data, <<"AI Role", "role", "ai_role">>)
        context == pick(data, <<"Context", "context">>)
        task == pick(data, <<"Task", "task">>)
        constraints == Coalesce(Get(data, "Constraints"), Get(data, "constraints"))
        outputFormat == Coalesce(Get(data, "Output Format"),
                          Coalesce(Get(data, "output_format"), Get(data, "outputFormat")))
        followUps == Coalesce(Get(data, "Follow-up Questions"),
                       Coalesce(Get(data, "follow_up_questions"), Get(data, "followUps")))
        lines ==
          (IF role # <<>> THEN << <<"AI Role:", "\n">> \o role >> ELSE <<>>)
          \o (IF context # <<>> THEN << <<"\n", "Context:", "\n">> \o context >> ELSE <<>>)
          \o (IF task # <<>> THEN << <<"\n", "Task:", "\n">> \o task >> ELSE <<>>)
          \o ListSection("Constraints:", constraints)
          \o ListSection("Output Format:", outputFormat)
          \o ListSection("Follow-up Questions (max 2):", followUps)
        text == Trim(Join(lines, <<"\n">>))
    IN  IF text # <<>> THEN text ELSE Stringify(data, 0)

\* followUpsFromResult(r): the string elements of the follow-up array
followUpsFromResult(r) ==
  LET v == Coalesce(Get(r, "follow_up_questions"),
             Coalesce(Get(r, "Follow-up Questions"), Get(r, "followUps")))
  IN  IF IsArray(v)
      THEN LET strs == SelectJ(v.v, "str")
           IN  [i \in 1..Len(strs) |-> strs[i].v]
      ELSE <<>>

\* { ...(data || {}) } : own enumerable properties of the value
Spread(data) ==
  CASE ~Truthy(data)  -> <<>>
    [] data.t = "obj" -> data.v
    [] data.t = "arr" -> [i \in 1..Len(data.v) |-> <<ToString(i - 1), data.v[i]>>]
    [] data.t = "str" -> [i \in 1..Len(data.v) |-> <<ToString(i - 1), JStr(<<data.v[i]>>)>>]
    [] OTHER          -> <<>>

\* the value handed to setResult after a success
ResultOf(data, promptText, fups) ==
  JObj(Put(Put(Spread(data), "prompt", JStr(promptText)),
           "follow_up_questions", JArr([i \in 1..Len(fups) |-> JStr(fups[i])])))

\* ------------------------------------------------------------------------
\* History Store: pure helpers
\* ------------------------------------------------------------------------
NoId == 0

NoPreset == "null"

SelectSavedOrNot(items, flag) == items

RECURSIVE SelectSaved(_, _)
SelectSaved(items, flag) ==
  IF items = <<>> THEN <<>>
  ELSE IF items[1].saved = flag
       THEN <<items[1]>> \o SelectSaved(Tail(items), flag)
       ELSE SelectSaved(Tail(items), flag)

RemoveIdThenCap(items, id) ==
  LET rest == SelectSeq(items, LAMBDA h : h.id # id)
  IN  SubSeq(rest, 1, IF Len(rest) < FREE_HISTORY_LIMIT THEN Len(rest) ELSE FREE_HISTORY_LIMIT)

RECURSIVE RemoveId(_, _)
RemoveId(items, id) ==
  IF items = <<>> THEN <<>>
  ELSE IF items[1].id = id
       THEN RemoveId(Tail(items), id)
       ELSE <<items[1]>> \o RemoveId(Tail(items), id)

\* insert x behind every element that does not sort after it (stable)
RECURSIVE InsertDesc(_, _)
InsertDesc(sorted, x) ==
  IF sorted = <<>> THEN <<x>>
  ELSE IF sorted[1].createdAt >= x.createdAt
       THEN <<sorted[1]>> \o InsertDesc(Tail(sorted), x)
       ELSE <<x>> \o sorted

\* items.sort((a, b) => b.createdAt - a.createdAt) : stable, newest first
RECURSIVE SortFrom(_, _)
SortFrom(sorted, rest) ==
  IF rest = <<>> THEN sorted
  ELSE SortFrom(InsertDesc(sorted, rest[1]), Tail(rest))

SortKeepsOrder(items) == items

SortDesc(items) == SortFrom(<<>>, items)

\* new Map keyed by id: first position of each id, last value set for it
DedupById(items) ==
  LET firsts == {i \in 1..Len(items) : \A j \in 1..(i-1) : items[j].id # items[i].id}
      lastOf(i) == CHOOSE j \in 1..Len(items) :
                     /\ items[j].id = items[i].id
                     /\ \A k \in (j+1)..Len(items) : items[k].id # items[i].id
      RECURSIVE build(_)
      build(i) ==
        IF i > Len(items) THEN <<>>
        ELSE IF i \in firsts THEN <<items[lastOf(i)]>> \o build(i + 1)
        ELSE build(i + 1)
  IN  build(1)

enforceHistoryLimitUncapped(items, p) == items

\* enforceHistoryLimit(items) as evaluated by a render whose plan is p
enforceHistoryLimit(items, p) ==
  IF p = "pro" THEN items
  ELSE LET saved == SelectSaved(items, TRUE)
           nonSaved == SelectSaved(items, FALSE)
           trimmedNonSaved == SubSeq(nonSaved, 1,
                                IF Len(nonSaved) < FREE_HISTORY_LIMIT
                                THEN Len(nonSaved) ELSE FREE_HISTORY_LIMIT)
           merged == saved \o trimmedNonSaved
       IN  SortDesc(DedupById(merged))

\* ------------------------------------------------------------------------
\* Durable local storage
\* ------------------------------------------------------------------------
\* getItem returned null (or the empty string)
Absent == [t |-> "absent", v |-> 0]

\* a stored text JSON.parse rejects
Garbage == [t |-> "garbage", v |-> 0]

\* todayKey() on calendar day d: one key per local calendar day
todayKey(d) == <<"day", ToString(d)>>

UsageDoc(d, count) == JObj(<< <<"date", JStr(todayKey(d))>>, <<"count", JNum(count)>> >>)

Max(a, b) == IF a >= b THEN a ELSE b

readUsageIgnoringDate(store, d) ==
  IF store.t \in {"absent", "garbage"} THEN 0
  ELSE IF ~Truthy(Get(store, "date")) \/ Get(store, "count").t # "num" THEN 0
  ELSE Max(0, Get(store, "count").v)

readUsageUnclamped(store, d) ==
  IF store.t \in {"absent", "garbage"} THEN 0
  ELSE IF ~Truthy(Get(store, "date")) \/ Get(store, "count").t # "num" THEN 0
  ELSE IF Get(store, "date") # JStr(todayKey(d)) THEN 0
  ELSE Get(store, "count").v

\* readUsage() on the stored record, on calendar day d
readUsage(store, d) ==
  IF store.t \in {"absent", "garbage"} THEN 0
  ELSE IF ~Truthy(Get(store, "date")) \/ Get(store, "count").t # "num" THEN 0
  ELSE IF Get(store, "date") # JStr(todayKey(d)) THEN 0
  ELSE Max(0, Get(store, "count").v)

\* the record writeUsage(count) stores on calendar day d
writeUsage(count, d) == UsageDoc(d, count)

\* JSON.stringify of one history item
ItemToJson(h) ==
  JObj(<< <<"id", JNum(h.id)>>,
          <<"createdAt", JNum(h.createdAt)>>,
          <<"preset", IF h.preset = NoPreset THEN JNull ELSE JStr(<<h.preset>>)>>,
          <<"input", JStr(h.input)>>,
          <<"output", JStr(h.output)>>,
          <<"followUps", JArr([i \in 1..Len(h.followUps) |-> JStr(h.followUps[i])])>>,
          <<"saved", JBool(h.saved)>> >>)

ItemFromJsonUnstarred(j) ==
  [id |-> Get(j, "id").v,
   createdAt |-> Get(j, "createdAt").v,
   preset |-> IF Get(j, "preset").t = "str" THEN Get(j, "preset").v[1] ELSE NoPreset,
   input |-> Get(j, "input").v,
   output |-> Get(j, "output").v,
   followUps |-> [i \in 1..Len(Get(j, "followUps").v) |-> Get(j, "followUps").v[i].v],
   saved |-> FALSE]

\* a parsed element read back as a HistoryItem (the cast of readHistory):
\* the cast changes nothing, an element that is no object stays what it is
ItemFromJson(j) ==
  IF j.t # "obj" THEN j
  ELSE
  [id |-> Get(j, "id").v,
   createdAt |-> Get(j, "createdAt").v,
   preset |-> IF Get(j, "preset").t = "str" THEN Get(j, "preset").v[1] ELSE NoPreset,
   input |-> Get(j, "input").v,
   output |-> Get(j, "output").v,
   followUps |-> [i \in 1..Len(Get(j, "followUps").v) |-> Get(j, "followUps").v[i].v],
   saved |-> Get(j, "saved").v]

\* the document writeHistory(items) stores
writeHistory(items) == JArr([i \in 1..Len(items) |-> ItemToJson(items[i])])

RECURSIVE SelectTruthy(_)
SelectTruthy(s) ==
  IF s = <<>> THEN <<>>
  ELSE IF Truthy(s[1]) THEN <<s[1]>> \o SelectTruthy(Tail(s))
  ELSE SelectTruthy(Tail(s))

\* readHistory(): the parsed elements it returns, before the cast
readHistory(store) ==
  IF store.t \in {"absent", "garbage"} THEN <<>>
  ELSE IF ~IsArray(store) THEN <<>>
  ELSE SelectTruthy(store.v)

\* the in-memory list after setHistory(readHistory())
LoadHistory(store) ==
  LET raw == readHistory(store)
  IN  [i \in 1..Len(raw) |-> ItemFromJson(raw[i])]

\* ------------------------------------------------------------------------
\* Usage Meter
\* ------------------------------------------------------------------------
\* the value of JavaScript's Infinity: above every count of the model
Infinity == 1000000

remaining(p, count) ==
  IF p = "pro" THEN Infinity ELSE Max(0, FREE_DAILY_LIMIT - count)

canGenerateOffByOne(p, count) == IF p = "pro" THEN TRUE ELSE count <= FREE_DAILY_LIMIT

canGenerate(p, count) == IF p = "pro" THEN TRUE ELSE count < FREE_DAILY_LIMIT

\* ------------------------------------------------------------------------
\* Inputs of the model
\* ------------------------------------------------------------------------
\* texts the user types into the command box
Ideas == { <<>>, <<" ", "\n">>, <<"a">>, <<" ", "a", " ">> }

\* the presets: one open to every plan, one pro-only
Presets ==
  { [id |-> "business", text |-> <<"Create a business strategy.">>, proOnly |-> FALSE],
    [id |-> "digitalProduct", text |-> <<"Design a digital product.">>, proOnly |-> TRUE] }

\* texts the user types into the history search box
Queries == { <<>>, <<"A">>, <<" ">>, <<"A", "Role: X">> }

\* bodies of the collaborator's answer
BodyFlat ==
  JObj(<< <<"prompt", JStr(<<"Role: X", "\n", "Task: Y">>)>>,
          <<"follow_up_questions", JArr(<<JStr(<<"Q1?">>), JStr(<<"Q2?">>)>>)>> >>)

BodySchema ==
  JObj(<< <<"title", JStr(<<"T">>)>>,
          <<"aiRole", JStr(<<"R">>)>>,
          <<"context", JStr(<<"C">>)>>,
          <<"task", JStr(<<"K">>)>>,
          <<"constraints", JStr(<<"N">>)>>,
          <<"outputFormat", JStr(<<"F">>)>>,
          <<"followUpQuestions", JArr(<<JStr(<<"Q1?">>)>>)>> >>)

BodyError == JObj(<< <<"error", JStr(<<"quota exceeded">>)>> >>)

BodyErrorEmpty == JObj(<< <<"error", JStr(<<>>)>> >>)

\* payloads of a success answer: values that are no objects
PlainPayloads ==
  { JNull, JBool(TRUE), JBool(FALSE), JNum(0), JNum(7), JStr(<<>>), JStr(<<"x">>),
    JArr(<<>>), JArr(<<JNum(1), JNum(2), JNum(3)>>), JObj(<<>>) }

\* payloads with a value under "prompt", alone or next to structured fields
PromptPayloads ==
  { JObj(<< <<"prompt", v>> >>) :
      v \in {JStr(<<"x">>), JStr(<<" ", "x", "\n">>), JStr(<<" ", " ">>), JStr(<<>>),
             JNum(5), JNull} }
  \cup
  { JObj(<< <<"prompt", v>>, <<"role", JStr(<<"R">>)>>, <<"context", JStr(<<"C">>)>>,
           <<"task", JStr(<<"K">>)>>, <<"constraints", JStr(<<"N">>)>>,
           <<"output_format", JStr(<<"F">>)>> >>) :
      v \in {JStr(<<"P">>), JStr(<<" ", " ">>)} }

\* for each semantic field, an alias and the alias tried after it
AliasPairs ==
  { <<"AI Role", "role">>, <<"role", "ai_role">>, <<"Context", "context">>,
    <<"Task", "task">>, <<"Constraints", "constraints">>,
    <<"Output Format", "output_format">>, <<"output_format", "outputFormat">> }

\* what the earlier alias holds: nothing usable, or a text
EarlierValues ==
  { JStr(<<>>), JStr(<<" ">>), JNull, JNum(5), JStr(<<" ", "V1">>) }

\* payloads holding a field under two of its aliases
AliasPayloads ==
  { JObj(<< <<p[1], v>>, <<p[2], JStr(<<"V2">>)>> >>) :
      p \in AliasPairs, v \in EarlierValues }

\* payloads with lists, and with values String() renders or cannot render
ListPayloads ==
  { JObj(<< <<"AI Role", JStr(<<"r">>)>>, <<"task", JStr(<<"t">>)>> >>),
    JObj(<< <<"task", JStr(<<"t">>)>>,
            <<"constraints", JArr(<<JStr(<<"c1">>), JNum(2), JNull>>)>>,
            <<"Output Format", JArr(<<JStr(<<"f1">>)>>)>> >>),
    JObj(<< <<"constraints", JObj(<< <<"a", JNum(1)>> >>)>> >>),
    JObj(<< <<"constraints", JObj(<< <<"toString", JNum(1)>> >>)>> >>),
    JObj(<< <<"task", JStr(<<"t">>)>>,
            <<"outputFormat", JArr(<<JObj(<< <<"toString", JNull>> >>)>>)>> >>) }

\* payloads with follow-up questions under the key variants
FollowUpPayloads ==
  { JObj(<< <<"prompt", JStr(<<"x">>)>>,
            <<"follow_up_questions", JArr(<<JStr(<<"Q1?">>), JNum(2), JStr(<<"Q2?">>)>>)>> >>),
    JObj(<< <<"prompt", JStr(<<"x">>)>>, <<"Follow-up Questions", JArr(<<JStr(<<"Q1?">>)>>)>> >>),
    JObj(<< <<"prompt", JStr(<<"x">>)>>, <<"followUps", JArr(<<JStr(<<"Q1?">>)>>)>> >>),
    JObj(<< <<"prompt", JStr(<<"x">>)>>, <<"follow_up_questions", JNull>>,
            <<"followUps", JArr(<<JStr(<<"Q1?">>)>>)>> >>),
    JObj(<< <<"prompt", JStr(<<"x">>)>>, <<"follow_up_questions", JStr(<<"none">>)>>,
            <<"followUps", JArr(<<JStr(<<"Q1?">>)>>)>> >>),
    JObj(<< <<"prompt", JStr(<<"x">>)>>, <<"follow_up_questions", JStr(<<"Q1?">>)>> >>),
    JObj(<< <<"task", JStr(<<"t">>)>>,
            <<"Follow-up Questions", JArr(<<JStr(<<"A?">>)>>)>>,
            <<"follow_up_questions", JArr(<<JStr(<<"B?">>)>>)>> >>),
    JObj(<< <<"task", JStr(<<"t">>)>>, <<"followUps", JStr(<<"Q1?">>)>> >>) }

\* the payloads of a success answer
Payloads ==
  PlainPayloads \cup PromptPayloads \cup AliasPayloads \cup ListPayloads
  \cup FollowUpPayloads \cup {BodyFlat, BodySchema}

\* what the remote call can produce: a response (status, body) or a rejection
Responses ==
  { [kind |-> "response", status |-> 200, body |-> BodyFlat],
    [kind |-> "response", status |-> 200, body |-> BodySchema],
    [kind |-> "response", status |-> 200, body |-> Garbage],
    [kind |-> "response", status |-> 500, body |-> BodyError],
    [kind |-> "response", status |-> 500, body |-> BodyErrorEmpty],
    [kind |-> "response", status |-> 502, body |-> Garbage],
    [kind |-> "threw", status |-> 0, body |-> JStr(<<"Failed to fetch">>)],
    [kind |-> "threw", status |-> 0, body |-> Undefined] }

\* what local storage can hold when the page is first opened
StoredUsage ==
  { Absent, Garbage,
    UsageDoc(1, 2), UsageDoc(1, FREE_DAILY_LIMIT), UsageDoc(0, FREE_DAILY_LIMIT),
    UsageDoc(1, -1),
    JObj(<< <<"date", JStr(todayKey(1))>>, <<"count", JStr(<<"2">>)>> >>),
    JObj(<< <<"count", JNum(2)>> >>),
    JObj(<< <<"date", JNum(1)>>, <<"count", JNum(2)>> >>),
    JArr(<< JNum(2) >>),
    JNull }

StoredItem ==
  [id |-> 100, createdAt |-> 0, preset |-> NoPreset, input |-> <<"a">>,
   output |-> <<"Role: X">>, followUps |-> <<>>, saved |-> TRUE]

StoredHistory == { Absent, Garbage, writeHistory(<<StoredItem>>) }

\* stored history texts that are corrupt: no JSON, no array, arrays of
\* elements that are no objects
StoredCorruptHistory ==
  { Garbage,
    JObj(<< <<"id", JNum(1)>> >>),
    JNum(5),
    JArr(<< JNull, JNum(0), JBool(FALSE), JStr(<<>>) >>),
    JArr(<< JNum(1), JStr(<<"x">>) >>) }

\* a history a pro session left behind: StoredRows entries, none saved,
\* newest first, created before the page is opened; the second and the
\* twelfth are about "plan", the others about "a"
StoredRows == 15

StoredRow(k) ==
  [id |-> 100 + k, createdAt |-> 1 - k, preset |-> NoPreset,
   input |-> IF k \in {2, 12} THEN <<"plan">> ELSE <<"a">>,
   output |-> <<"Role: X">>, followUps |-> <<>>, saved |-> FALSE]

StoredLongHistory == [k \in 1..StoredRows |-> StoredRow(k)]

\* a short stored history, newest first: a preset entry with a follow-up, a
\* starred entry and a plain one, the last two created at the same instant
StoredShortHistory ==
  << [id |-> 101, createdAt |-> 1, preset |-> "business", input |-> <<"A">>,
      output |-> <<"Role: X">>, followUps |-> << <<"Q1?">> >>, saved |-> FALSE],
     [id |-> 102, createdAt |-> 0, preset |-> NoPreset, input |-> <<"b", " ", "d">>,
      output |-> <<"Role: Y">>, followUps |-> <<>>, saved |-> TRUE],
     [id |-> 103, createdAt |-> 0, preset |-> NoPreset, input |-> <<"d">>,
      output |-> <<"a">>, followUps |-> <<>>, saved |-> FALSE] >>

\* ------------------------------------------------------------------------
\* State
\* ------------------------------------------------------------------------
VARIABLES
  plan,             \* useState<Plan>
  dailyCount,       \* useState(0), set from readUsage() on mount
  idea,             \* text of the command box
  preset,           \* selected preset id, NoPreset for null
  result,           \* displayed result, JNull for null
  loading,          \* busy flag
  error,            \* displayed message, <<>> for ""
  showUpgrade,      \* upgrade banner flag
  history,          \* in-memory history list
  activeHistoryId,  \* active history selection, NoId for null
  historyTab,       \* "all" | "saved"
  query,            \* history search text
  usageStore,       \* localStorage["pap_usage"]
  historyStore,     \* localStorage["pap_history"]
  today,            \* the local calendar day
  now,              \* Date.now()
  nextId,           \* the next value uid() returns
  inflight,         \* suspended handleArchitect calls: what each closure captured
  freeCommits       \* generations counted against the current calendar day:
                    \* those the stored record holds for it, plus those
                    \* committed since while the plan was free

vars == <<plan, dailyCount, idea, preset, result, loading, error, showUpgrade,
          history, activeHistoryId, historyTab, query, usageStore, historyStore,
          today, now, nextId, inflight, freeCommits>>

ui == <<idea, preset, result, loading, error, showUpgrade, activeHistoryId,
        historyTab, query>>

\* ------------------------------------------------------------------------
\* Messages
\* ------------------------------------------------------------------------
MsgTypeSomething == <<"Type something first.">>

MsgDailyLimit ==
  <<"Daily limit reached. Free plan allows ", ToString(FREE_DAILY_LIMIT),
    " prompts/day. Upgrade for unlimited.">>

MsgProOnly == <<"That preset is Pro-only. Upgrade to unlock it.">>

MsgWentWrong == <<"Something went wrong.">>

\* the message of the TypeError String() throws
MsgCannotConvert == <<"Cannot convert object to primitive value">>

HttpErrorMessageStatusOnly(data, status) ==
  <<"Request failed (", ToString(status), ")">>

\* data?.error || `Request failed (${res.status})`
HttpErrorMessage(data, status) ==
  IF Truthy(Get(data, "error"))
  THEN ToStr(Get(data, "error"))
  ELSE <<"Request failed (", ToString(status), ")">>

\* e?.message || "Something went wrong."
ThrownMessage(message) ==
  IF Truthy(message) THEN ToStr(message) ELSE MsgWentWrong

\* res.ok
IsOk(status) == status >= 200 /\ status <= 299

\* data = await res.json(), null when the body does not parse
ParsedBody(body) == IF body = Garbage THEN JNull ELSE body

\* ------------------------------------------------------------------------
\* History list as displayed
\* ------------------------------------------------------------------------
LowerTok(c) ==
  CASE c = "A" -> "a"
    [] c = "C" -> "c"
    [] c = "F" -> "f"
    [] c = "K" -> "k"
    [] c = "N" -> "n"
    [] c = "R" -> "r"
    [] c = "T" -> "t"
    [] OTHER   -> c

toLowerCase(s) == [i \in 1..Len(s) |-> LowerTok(s[i])]

includes(hay, q) ==
  \E i \in 0..(Len(hay) - Len(q)) : SubSeq(hay, i + 1, i + Len(q)) = q

RECURSIVE SelectMatching(_, _)
SelectMatching(items, q) ==
  IF items = <<>> THEN <<>>
  ELSE IF includes(toLowerCase(items[1].input \o <<"\n">> \o items[1].output), q)
       THEN <<items[1]>> \o SelectMatching(Tail(items), q)
       ELSE SelectMatching(Tail(items), q)

filteredHistoryIgnoringTab(items, tab, text) ==
  LET q == toLowerCase(Trim(text))
  IN  IF q = <<>> THEN items ELSE SelectMatching(items, q)

filteredHistoryOf(items, tab, text) ==
  LET base == IF tab = "saved" THEN SelectSaved(items, TRUE) ELSE items
      q == toLowerCase(Trim(text))
  IN  IF q = <<>> THEN base ELSE SelectMatching(base, q)

filteredHistory == filteredHistoryOf(history, historyTab, query)

\* ------------------------------------------------------------------------
\* Init: the page freshly opened on day 1, after the mount effect
\* ------------------------------------------------------------------------
\* the state the mount effect leaves when storage holds u and h
Opened(u, h) ==
  /\ usageStore = u
  /\ historyStore = h
  /\ today = 1
  /\ now = 1
  /\ nextId = 1
  /\ plan = "free"
  /\ dailyCount = readUsage(u, 1)
  /\ history = LoadHistory(h)
  /\ idea = <<>>
  /\ preset = NoPreset
  /\ result = JNull
  /\ loading = FALSE
  /\ error = <<>>
  /\ showUpgrade = FALSE
  /\ activeHistoryId = NoId
  /\ historyTab = "all"
  /\ query = <<>>
  /\ inflight = <<>>
  /\ freeCommits = readUsage(u, 1)

\* records left by earlier sessions: two generations used today, the quota
\* used up today, the quota used up yesterday; one starred history entry
Init ==
  \E u \in {UsageDoc(1, 2), UsageDoc(1, FREE_DAILY_LIMIT), UsageDoc(0, FREE_DAILY_LIMIT)} :
    Opened(u, writeHistory(<<StoredItem>>))

\* ------------------------------------------------------------------------
\* Environment: reload, clock, calendar
\* ------------------------------------------------------------------------
\* the page is reloaded: state is rebuilt, the mount effect reads storage,
\* and a suspended handleArchitect call dies with the old page
Mount ==
  /\ plan' = "free"
  /\ dailyCount' = readUsage(usageStore, today)
  /\ history' = LoadHistory(historyStore)
  /\ idea' = <<>>
  /\ preset' = NoPreset
  /\ result' = JNull
  /\ loading' = FALSE
  /\ error' = <<>>
  /\ showUpgrade' = FALSE
  /\ activeHistoryId' = NoId
  /\ historyTab' = "all"
  /\ query' = <<>>
  /\ inflight' = <<>>
  /\ UNCHANGED <<usageStore, historyStore, today, now, nextId, freeCommits>>

\* a millisecond passes
Tick ==
  /\ now < MaxNow
  /\ now' = now + 1
  /\ UNCHANGED <<plan, dailyCount, history, ui, usageStore, historyStore, today,
                 nextId, inflight, freeCommits>>

\* local midnight passes while the page stays open
DayPasses ==
  /\ today < MaxDay
  /\ today' = today + 1
  /\ freeCommits' = 0
  /\ UNCHANGED <<plan, dailyCount, history, ui, usageStore, historyStore, now,
                 nextId, inflight>>

\* ------------------------------------------------------------------------
\* Command box and presets
\* ------------------------------------------------------------------------
SetIdea ==
  \E s \in Ideas :
    /\ idea' = s
    /\ UNCHANGED <<plan, dailyCount, preset, result, loading, error, showUpgrade,
                   history, activeHistoryId, historyTab, query, usageStore,
                   historyStore, today, now, nextId, inflight, freeCommits>>

applyPreset(p) ==
  /\ IF p.proOnly /\ plan # "pro"
     THEN /\ showUpgrade' = TRUE
          /\ error' = MsgProOnly
          /\ UNCHANGED <<preset, idea>>
     ELSE /\ error' = <<>>
          /\ preset' = p.id
          /\ idea' = p.text
          /\ UNCHANGED showUpgrade
  /\ UNCHANGED <<plan, dailyCount, result, loading, history, activeHistoryId,
                 historyTab, query, usageStore, historyStore, today, now, nextId,
                 inflight, freeCommits>>

ApplyPreset == \E p \in Presets : applyPreset(p)

\* the Clear button next to Generate
ClearInput ==
  /\ idea' = <<>>
  /\ preset' = NoPreset
  /\ result' = JNull
  /\ error' = <<>>
  /\ showUpgrade' = FALSE
  /\ activeHistoryId' = NoId
  /\ UNCHANGED <<plan, dailyCount, loading, history, historyTab, query, usageStore,
                 historyStore, today, now, nextId, inflight, freeCommits>>

\* ------------------------------------------------------------------------
\* Session Controller
\* ------------------------------------------------------------------------
\* what the suspended call keeps of the render it was created in
Closure(trimmed) ==
  [trimmed |-> trimmed, plan |-> plan, dailyCount |-> dailyCount,
   history |-> history, preset |-> preset]

IsBlankUntrimmed(s) == s = <<>>

\* !idea.trim()
IsBlank(s) == Trim(s) = <<>>

\* handleArchitect up to the await
handleArchitect ==
  /\ result' = JNull
  /\ IF IsBlank(idea)
     THEN /\ error' = MsgTypeSomething
          /\ UNCHANGED <<showUpgrade, loading, inflight>>
     ELSE IF ~canGenerate(plan, dailyCount)
     THEN /\ showUpgrade' = TRUE
          /\ error' = MsgDailyLimit
          /\ UNCHANGED <<loading, inflight>>
     ELSE /\ error' = <<>>
          /\ loading' = TRUE
          /\ inflight' = Append(inflight, Closure(Trim(idea)))
          /\ UNCHANGED showUpgrade
  /\ UNCHANGED <<plan, dailyCount, idea, preset, history, activeHistoryId,
                 historyTab, query, usageStore, historyStore, today, now, nextId,
                 freeCommits>>

GenerateDisabledWhenOutOfQuotaOnly(busy, p, left) == p = "free" /\ left = 0

\* the disabled attribute of the Generate button
GenerateDisabled(busy, p, left) == busy \/ (p = "free" /\ left = 0)

\* a click on the Generate button: a disabled button dispatches no event
ClickGenerate ==
  IF GenerateDisabled(loading, plan, remaining(plan, dailyCount))
  THEN UNCHANGED vars
  ELSE handleArchitect

\* the handler invoked without the button in front of it
InvokeGenerate ==
  /\ Len(inflight) < MaxInflight
  /\ handleArchitect

\* bumpUsage() of a render whose plan is p and whose count is count
bumpUsage(p, count) ==
  IF p = "pro"
  THEN UNCHANGED <<dailyCount, usageStore>>
  ELSE /\ dailyCount' = count + 1
       /\ usageStore' = writeUsage(count + 1, today)

NewItemStarred(pre, input, output, fups) ==
  [id |-> nextId, createdAt |-> now, preset |-> pre, input |-> input,
   output |-> output, followUps |-> fups, saved |-> TRUE]

\* the item saveToHistory builds in a render whose preset is pre
NewItem(pre, input, output, fups) ==
  [id |-> nextId, createdAt |-> now, preset |-> pre, input |-> input,
   output |-> output, followUps |-> fups, saved |-> FALSE]

\* saveToHistory() of the render captured in cap
saveToHistoryRestamped(cap, input, output, fups) ==
  LET item == NewItem(cap.preset, input, output, fups)
      older == [i \in 1..Len(cap.history) |-> [cap.history[i] EXCEPT !.createdAt = now]]
      next == enforceHistoryLimit(SortDesc(<<item>> \o older), cap.plan)
  IN  /\ history' = next
      /\ historyStore' = writeHistory(next)
      /\ activeHistoryId' = item.id
      /\ nextId' = nextId + 1

saveToHistory(cap, input, output, fups) ==
  LET item == NewItem(cap.preset, input, output, fups)
      next == enforceHistoryLimit(SortDesc(<<item>> \o cap.history), cap.plan)
  IN  /\ history' = next
      /\ historyStore' = writeHistory(next)
      /\ activeHistoryId' = item.id
      /\ nextId' = nextId + 1

RemoveAt(s, i) == SubSeq(s, 1, i - 1) \o SubSeq(s, i + 1, Len(s))

\* how the awaited call ended
Outcome(r) ==
  IF r.kind = "threw" THEN "threw"
  ELSE IF ~IsOk(r.status) THEN "http"
  ELSE "commit"

BusyWithoutFinally(outcome) == outcome # "commit"

\* the busy flag once the call has ended: finally { setLoading(false) }
BusyAfter(outcome) == FALSE

\* handleArchitect from the await on: the remote call of suspended call i
\* resolves with r, or rejects
Settle(i, r) ==
  LET cap == inflight[i]
      data == ParsedBody(r.body)
  IN  /\ inflight' = RemoveAt(inflight, i)
      /\ loading' = BusyAfter(Outcome(r))
      /\ IF r.kind = "threw"
         THEN /\ error' = ThrownMessage(r.body)
              /\ UNCHANGED <<dailyCount, usageStore, result, history, historyStore,
                             activeHistoryId, nextId, freeCommits>>
         ELSE IF ~IsOk(r.status)
         THEN /\ error' = HttpErrorMessage(data, r.status)
              /\ UNCHANGED <<dailyCount, usageStore, result, history, historyStore,
                             activeHistoryId, nextId, freeCommits>>
         ELSE IF toCopyReadyPromptThrows(data)
         THEN /\ bumpUsage(cap.plan, cap.dailyCount)
              /\ error' = MsgCannotConvert
              /\ UNCHANGED <<result, history, historyStore, activeHistoryId, nextId,
                             freeCommits>>
         ELSE LET promptText == toCopyReadyPrompt(data)
                  fups == followUpsFromResult(data)
              IN  /\ nextId <= MaxIds
                  /\ bumpUsage(cap.plan, cap.dailyCount)
                  /\ result' = ResultOf(data, promptText, fups)
                  /\ saveToHistory(cap, cap.trimmed, promptText, fups)
                  /\ freeCommits' = IF plan = "free" THEN freeCommits + 1 ELSE freeCommits
                  /\ UNCHANGED error
      /\ UNCHANGED <<plan, idea, preset, showUpgrade, historyTab, query, today, now>>

\* the call rejects, or answers with a non-success status
CallFails ==
  \E i \in 1..Len(inflight) :
    \E r \in {x \in Responses : Outcome(x) # "commit"} : Settle(i, r)

\* the call answers with a success status
CallSucceeds ==
  \E i \in 1..Len(inflight) :
    \E r \in {x \in Responses : Outcome(x) = "commit"} : Settle(i, r)

\* the remote call of a suspended attempt ends
Resolve == CallFails \/ CallSucceeds

\* the call of the one suspended attempt answers 200 with the payload d
AnswerWith(d) ==
  /\ inflight # <<>>
  /\ Settle(1, [kind |-> "response", status |-> 200, body |-> d])

\* the call answers 200 with some payload
Answer == \E d \in Payloads : AnswerWith(d)

\* ------------------------------------------------------------------------
\* Plan
\* ------------------------------------------------------------------------
\* the plan toggle in the header; enforceHistoryLimit is the one of the
\* render the button belongs to, so it still sees the plan being left
TogglePlan ==
  /\ plan' = IF plan = "free" THEN "pro" ELSE "free"
  /\ showUpgrade' = FALSE
  /\ error' = <<>>
  /\ history' = enforceHistoryLimit(history, plan)
  /\ historyStore' = writeHistory(history')
  /\ UNCHANGED <<dailyCount, idea, preset, result, loading, activeHistoryId,
                 historyTab, query, usageStore, today, now, nextId, inflight, freeCommits>>

\* the upgrade banner is rendered while showUpgrade && plan !== "pro"
BannerShown == showUpgrade /\ plan # "pro"

UpgradeDemo ==
  /\ BannerShown
  /\ plan' = "pro"
  /\ UNCHANGED <<dailyCount, history, ui, usageStore, historyStore, today, now,
                 nextId, inflight, freeCommits>>

DismissUpgrade ==
  /\ BannerShown
  /\ showUpgrade' = FALSE
  /\ UNCHANGED <<plan, dailyCount, idea, preset, result, loading, error, history,
                 activeHistoryId, historyTab, query, usageStore, historyStore,
                 today, now, nextId, inflight, freeCommits>>

\* ------------------------------------------------------------------------
\* History Store
\* ------------------------------------------------------------------------
FlipSavedOfAll(items, id) ==
  [i \in 1..Len(items) |-> [items[i] EXCEPT !.saved = ~items[i].saved]]

FlipSaved(items, id) ==
  [i \in 1..Len(items) |->
     IF items[i].id = id THEN [items[i] EXCEPT !.saved = ~items[i].saved]
     ELSE items[i]]

toggleSaved(id) ==
  /\ history' = enforceHistoryLimit(SortDesc(FlipSaved(history, id)), plan)
  /\ historyStore' = writeHistory(history')
  /\ UNCHANGED <<plan, dailyCount, ui, usageStore, today, now, nextId, inflight, freeCommits>>

deleteHistoryItemInMemoryOnly(id) ==
  /\ history' = RemoveId(history, id)
  /\ activeHistoryId' = IF activeHistoryId = id THEN NoId ELSE activeHistoryId
  /\ UNCHANGED <<plan, dailyCount, idea, preset, result, loading, error, showUpgrade,
                 historyTab, query, usageStore, historyStore, today, now, nextId,
                 inflight, freeCommits>>

deleteHistoryItem(id) ==
  /\ history' = RemoveId(history, id)
  /\ historyStore' = writeHistory(history')
  /\ activeHistoryId' = IF activeHistoryId = id THEN NoId ELSE activeHistoryId
  /\ UNCHANGED <<plan, dailyCount, idea, preset, result, loading, error, showUpgrade,
                 historyTab, query, usageStore, today, now, nextId, inflight, freeCommits>>

loadHistoryItem(item) ==
  /\ idea' = item.input
  /\ preset' = item.preset
  /\ result' = JObj(<< <<"prompt", JStr(item.output)>>,
                       <<"follow_up_questions",
                         JArr([i \in 1..Len(item.followUps) |-> JStr(item.followUps[i])])>> >>)
  /\ activeHistoryId' = item.id
  /\ error' = <<>>
  /\ UNCHANGED <<plan, dailyCount, loading, showUpgrade, history, historyTab, query,
                 usageStore, historyStore, today, now, nextId, inflight, freeCommits>>

\* the buttons of the rows the list renders
ToggleSaved == \E i \in 1..Len(filteredHistory) : toggleSaved(filteredHistory[i].id)

DeleteHistoryItem == \E i \in 1..Len(filteredHistory) : deleteHistoryItem(filteredHistory[i].id)

LoadHistoryItem == \E i \in 1..Len(filteredHistory) : loadHistoryItem(filteredHistory[i])

\* the Clear button of the history panel, then clearAllHistory()
ClearAllHistory ==
  /\ showUpgrade' = IF plan # "pro" THEN TRUE ELSE showUpgrade
  /\ history' = enforceHistoryLimit(SortDesc(SelectSaved(history, TRUE)), plan)
  /\ historyStore' = writeHistory(history')
  /\ activeHistoryId' = NoId
  /\ UNCHANGED <<plan, dailyCount, idea, preset, result, loading, error, historyTab,
                 query, usageStore, today, now, nextId, inflight, freeCommits>>

SetHistoryTab ==
  \E t \in {"all", "saved"} :
    /\ historyTab' = t
    /\ UNCHANGED <<plan, dailyCount, idea, preset, result, loading, error,
                   showUpgrade, history, activeHistoryId, query, usageStore,
                   historyStore, today, now, nextId, inflight, freeCommits>>

SetQuery ==
  \E q \in Queries :
    /\ query' = q
    /\ UNCHANGED <<plan, dailyCount, idea, preset, result, loading, error,
                   showUpgrade, history, activeHistoryId, historyTab, usageStore,
                   historyStore, today, now, nextId, inflight, freeCommits>>

\* ------------------------------------------------------------------------
\* Specification: a session of generation attempts, as the user drives it
\* through the Generate button, with the plan switched, rows deleted, the page
\* reloaded and midnight passing at any point, also while a request is out.
\* The history panel shows every row (tab "all", empty search).
\* ------------------------------------------------------------------------
Next ==
  \/ Mount
  \/ DayPasses
  \/ SetIdea
  \/ ClickGenerate
  \/ Resolve
  \/ TogglePlan
  \/ DeleteHistoryItem

Spec == Init /\ [][Next]_vars

\* the remote call always ends: the promise of fetch() settles
LiveSpec == Spec /\ WF_vars(Resolve)

\* ------------------------------------------------------------------------
\* Specification: the same session with handleArchitect invoked directly,
\* so that its own quota gate is reached
\* ------------------------------------------------------------------------
NextHandler ==
  \/ Mount
  \/ DayPasses
  \/ SetIdea
  \/ InvokeGenerate
  \/ Resolve
  \/ TogglePlan
  \/ DeleteHistoryItem

SpecHandler == Init /\ [][NextHandler]_vars

\* ------------------------------------------------------------------------
\* Specification: the page opened on whatever local storage holds, records
\* that are absent, unparseable or of the wrong shape included
\* ------------------------------------------------------------------------
InitStorage == \E u \in StoredUsage : \E h \in StoredHistory : Opened(u, h)

NextStorage ==
  \/ Mount
  \/ DayPasses
  \/ SetIdea
  \/ ClickGenerate
  \/ Resolve

SpecStorage == InitStorage /\ [][NextStorage]_vars

\* ------------------------------------------------------------------------
\* Specification: the history panel. The page has been opened under the free
\* plan on the long stored history, "a" is typed in the command box and
\* "plan" in the search box, so the panel shows the two rows about "plan":
\* one among the ten newest, one older than them. The user generates,
\* switches the plan, stars, deletes and clears, also while a request is out.
\* ------------------------------------------------------------------------
InitHistory ==
  /\ usageStore = UsageDoc(1, 0)
  /\ historyStore = writeHistory(StoredLongHistory)
  /\ today = 1
  /\ now = 1
  /\ nextId = 1
  /\ plan = "free"
  /\ dailyCount = readUsage(usageStore, 1)
  /\ history = LoadHistory(historyStore)
  /\ idea = <<"a">>
  /\ preset = NoPreset
  /\ result = JNull
  /\ loading = FALSE
  /\ error = <<>>
  /\ showUpgrade = FALSE
  /\ activeHistoryId = NoId
  /\ historyTab = "all"
  /\ query = <<"plan">>
  /\ inflight = <<>>
  /\ freeCommits = 0

NextHistory ==
  \/ ClickGenerate
  \/ Resolve
  \/ TogglePlan
  \/ ToggleSaved
  \/ DeleteHistoryItem
  \/ ClearAllHistory

SpecHistory == InitHistory /\ [][NextHistory]_vars

\* ------------------------------------------------------------------------
\* Specification: the rows of the history panel. The page is open on the
\* long stored history with "plan" in the search box; the user opens, stars
\* and deletes the rows shown, clears the panel and switches the plan.
\* ------------------------------------------------------------------------
NextRows ==
  \/ LoadHistoryItem
  \/ ToggleSaved
  \/ DeleteHistoryItem
  \/ ClearAllHistory
  \/ TogglePlan

SpecRows == InitHistory /\ [][NextRows]_vars

\* ------------------------------------------------------------------------
\* Specification: the history panel in full. The page is opened on the short
\* stored history; the user switches tabs, searches, opens rows,
\* stars, deletes, clears, switches the plan and reloads the page.
\* ------------------------------------------------------------------------
InitPanel == Opened(UsageDoc(1, 0), writeHistory(StoredShortHistory))

NextPanel ==
  \/ Mount
  \/ SetHistoryTab
  \/ SetQuery
  \/ LoadHistoryItem
  \/ TogglePlan
  \/ ToggleSaved
  \/ DeleteHistoryItem
  \/ ClearAllHistory

SpecPanel == InitPanel /\ [][NextPanel]_vars

\* ------------------------------------------------------------------------
\* Specification: the order of the history. The page is open on the short
\* stored history with "a" typed in the command box and "d" in the search
\* box, so the panel shows the two entries created at the same instant; the
\* user generates within the millisecond the newest entry was created in,
\* stars, deletes, clears and switches the plan, also while a request is out.
\* ------------------------------------------------------------------------
InitOrder ==
  /\ usageStore = UsageDoc(1, 0)
  /\ historyStore = writeHistory(StoredShortHistory)
  /\ today = 1
  /\ now = 1
  /\ nextId = 1
  /\ plan = "free"
  /\ dailyCount = readUsage(usageStore, 1)
  /\ history = LoadHistory(historyStore)
  /\ idea = <<"a">>
  /\ preset = NoPreset
  /\ result = JNull
  /\ loading = FALSE
  /\ error = <<>>
  /\ showUpgrade = FALSE
  /\ activeHistoryId = NoId
  /\ historyTab = "all"
  /\ query = <<"d">>
  /\ inflight = <<>>
  /\ freeCommits = 0

NextOrder ==
  \/ ClickGenerate
  \/ Resolve
  \/ TogglePlan
  \/ ToggleSaved
  \/ DeleteHistoryItem
  \/ ClearAllHistory

SpecOrder == InitOrder /\ [][NextOrder]_vars

\* ------------------------------------------------------------------------
\* Specification: the page opened on a corrupt stored history, the
\* collaborator being out of reach: attempts are made and fail, the page is
\* reloaded, midnight passes.
\* ------------------------------------------------------------------------
InitCorrupt ==
  \E u \in {UsageDoc(1, 0), UsageDoc(1, 2)} :
    \E h \in StoredCorruptHistory : Opened(u, h)

NextCorrupt ==
  \/ Mount
  \/ DayPasses
  \/ SetIdea
  \/ ClickGenerate
  \/ CallFails

SpecCorrupt == InitCorrupt /\ [][NextCorrupt]_vars

\* ------------------------------------------------------------------------
\* Specification: the response normalizer at work. The page is opened on an
\* empty history; the user types and generates, and the collaborator answers
\* 200 with a payload of any shape.
\* ------------------------------------------------------------------------
InitNormalizer == Opened(UsageDoc(1, 0), Absent)

NextNormalizer ==
  \/ SetIdea
  \/ ClickGenerate
  \/ Answer

SpecNormalizer == InitNormalizer /\ [][NextNormalizer]_vars

\* ------------------------------------------------------------------------
\* Specification: presets. The page is opened on an empty history; the user
\* picks presets, switches the plan, upgrades from or dismisses the banner,
\* generates, and opens entries of the history.
\* ------------------------------------------------------------------------
InitPreset == Opened(UsageDoc(1, 0), Absent)

NextPreset ==
  \/ ApplyPreset
  \/ ClearInput
  \/ TogglePlan
  \/ UpgradeDemo
  \/ DismissUpgrade
  \/ ClickGenerate
  \/ Resolve
  \/ LoadHistoryItem

SpecPreset == InitPreset /\ [][NextPreset]_vars

\* ------------------------------------------------------------------------
\* Claims
\* ------------------------------------------------------------------------
\* the ids of the entries of a list
IdsOf(items) == {items[k].id : k \in 1..Len(items)}

\* the remote call answered with a success status
IsSuccess(r) == r.kind = "response" /\ r.status >= 200 /\ r.status <= 299

\* the remote call answered with a non-success status
IsHttpFailure(r) == r.kind = "response" /\ ~(r.status >= 200 /\ r.status <= 299)

\* the parsed body of the answer, null when it does not parse
DataOf(r) == IF r.body = Garbage THEN JNull ELSE r.body

\* the step is the end of the one suspended attempt, the call having ended with r
Ends(r) == inflight # <<>> /\ Settle(1, r)

\* the step leaves the usage meter and the history store as they are
MeterAndHistoryKept ==
  /\ dailyCount' = dailyCount
  /\ usageStore' = usageStore
  /\ history' = history
  /\ historyStore' = historyStore

C2_AtomicCommit ==
  [][ \A r \in Responses :
        (Ends(r) /\ plan = "free") =>
          ((nextId \in IdsOf(history')) <=> (dailyCount' = dailyCount + 1))
    ]_vars

\* C3: an attempt whose trimmed input is empty is rejected with a message
\* before any network or storage effect: no request is issued; the usage
\* count, the history and both persisted records are unchanged.
C3_EmptyInputRejected ==
  [][ (ClickGenerate /\ ~loading /\ ~(plan = "free" /\ dailyCount >= FREE_DAILY_LIMIT)
       /\ Trim(idea) = <<>>) =>
        /\ error' # <<>>
        /\ inflight' = inflight
        /\ loading' = loading
        /\ MeterAndHistoryKept
    ]_vars

\* a blank, non-empty input has been rejected
C3_Witness ==
  /\ idea = <<" ", "\n">>
  /\ error = MsgTypeSomething
  /\ ~loading
  /\ inflight = <<>>

\* C4: under the free plan with zero remaining, an attempt with non-empty
\* input is rejected: the upgrade prompt is shown, the message contains the
\* numeric daily cap, no request is issued, usage count and history are
\* unchanged.
C4_QuotaRejected ==
  [][ (InvokeGenerate /\ plan = "free" /\ Trim(idea) # <<>>
       /\ Max(0, FREE_DAILY_LIMIT - dailyCount) = 0) =>
        /\ showUpgrade'
        /\ includes(error', <<ToString(FREE_DAILY_LIMIT)>>)
        /\ inflight' = inflight
        /\ loading' = loading
        /\ MeterAndHistoryKept
    ]_vars

\* an attempt with input has been turned away at the quota gate
C4_Witness ==
  /\ plan = "free"
  /\ dailyCount = FREE_DAILY_LIMIT
  /\ Trim(idea) # <<>>
  /\ showUpgrade
  /\ error = MsgDailyLimit
  /\ inflight = <<>>

\* C5 as stated: on a non-success status the message is the embedded error
\* message if the body carries one, else "Request failed (status)"; no usage
\* increment, no history entry.
C5_ErrorIfPresent ==
  [][ \A r \in Responses :
        (IsHttpFailure(r) /\ Ends(r)) =>
          /\ error' = IF HasKey(DataOf(r), "error")
                      THEN Get(DataOf(r), "error").v
                      ELSE <<"Request failed (", ToString(r.status), ")">>
          /\ MeterAndHistoryKept
    ]_vars

\* C5 amended: on a non-success status the message is the embedded error
\* message if the body carries a non-empty one, else "Request failed
\* (status)"; no usage increment, no history entry.
C5_ErrorIfNonEmpty ==
  [][ \A r \in Responses :
        (IsHttpFailure(r) /\ Ends(r)) =>
          /\ error' = IF HasKey(DataOf(r), "error") /\ Get(DataOf(r), "error").v # <<>>
                      THEN Get(DataOf(r), "error").v
                      ELSE <<"Request failed (", ToString(r.status), ")">>
          /\ MeterAndHistoryKept
    ]_vars

\* the collaborator's own message is on display after a failed attempt
C5_Witness ==
  /\ error = <<"quota exceeded">>
  /\ ~loading
  /\ inflight = <<>>
  /\ nextId = 1

\* C6: a failure of the network step, a body that does not parse included,
\* surfaces a failure message and returns to Idle without changing the usage
\* count or the history.
C6_NetworkFailureKeepsState ==
  [][ \A r \in Responses :
        ((r.kind = "threw" \/ r.body = Garbage) /\ Ends(r)) =>
          /\ error' # <<>>
          /\ ~loading'
          /\ MeterAndHistoryKept
    ]_vars

\* C7: at most one request is outstanding, the busy flag is up while it is,
\* and a generate action taken meanwhile changes nothing.
C7_OneRequestAtATime ==
  /\ [](Len(inflight) <= 1 /\ (inflight # <<>> => loading))
  /\ [][ (loading /\ ClickGenerate) => UNCHANGED vars ]_vars

\* a request is out while the command box holds input and quota is left:
\* the busy flag alone keeps the Generate button down
C7_Witness ==
  /\ loading
  /\ Len(inflight) = 1
  /\ Trim(idea) # <<>>
  /\ plan = "free"
  /\ dailyCount < FREE_DAILY_LIMIT

\* C8: an attempt that reaches Requesting returns to Idle once the call ends,
\* however it ends; an attempt that does not succeed leaves a non-empty
\* message.
C8_BackToIdle ==
  /\ loading ~> ~loading
  /\ [][ /\ \A r \in Responses :
              Ends(r) => /\ ~loading'
                         /\ ~IsSuccess(r) => error' # <<>>
         /\ (ClickGenerate /\ ~loading /\ inflight' = inflight
             /\ ~(plan = "free" /\ dailyCount >= FREE_DAILY_LIMIT)) => error' # <<>>
       ]_vars

\* a rejected call has left its fallback message and the controller idle
C8_Witness ==
  /\ error = MsgWentWrong
  /\ ~loading
  /\ inflight = <<>>
  /\ Trim(idea) # <<>>

\* C9: under the free plan the usage count never exceeds DAILY_LIMIT, and no
\* more than DAILY_LIMIT generations commit while the plan is free within one
\* calendar day.
C9_QuotaNeverExceeded ==
  /\ dailyCount <= FREE_DAILY_LIMIT
  /\ freeCommits <= FREE_DAILY_LIMIT

\* C10: under the free plan remaining is max(0, DAILY_LIMIT - count) for
\* today's effective count (0 when the stored date is not today), it is never
\* negative, and QuotaCheck passes if and only if remaining is positive.
C10_RemainingOfTodaysCount ==
  plan = "free" =>
    /\ remaining(plan, dailyCount) = Max(0, FREE_DAILY_LIMIT - readUsage(usageStore, today))
    /\ remaining(plan, dailyCount) >= 0
    /\ canGenerate(plan, dailyCount) <=> remaining(plan, dailyCount) > 0

\* the date and the count of the persisted usage record
StoredDate == Get(usageStore, "date")

StoredCount == Get(usageStore, "count")

\* the persisted usage record carries the date of another calendar day
StoredOnAnotherDay == IsString(StoredDate) /\ StoredDate # JStr(todayKey(today))

\* C11: under the free plan, whenever the stored usage record's date is not
\* the current calendar day, remaining is DAILY_LIMIT whatever the stored
\* count: at startup, and after midnight passes with the page open.
C11_StaleRecordMeansFullQuota ==
  (plan = "free" /\ StoredOnAnotherDay) =>
    remaining(plan, dailyCount) = FREE_DAILY_LIMIT

\* the step is a generation attempt with input, made at the handler
AttemptWithInput == InvokeGenerate /\ Trim(idea) # <<>>

\* the attempt is turned away at the quota gate
TurnedAway ==
  /\ inflight' = inflight
  /\ error' = MsgDailyLimit
  /\ showUpgrade'

\* C12 as stated: with a free-plan record whose count is DAILY_LIMIT,
\* QuotaCheck rejects an attempt whether or not the stored date is today.
C12_FullRecordRejectsAnyDate ==
  [][ (AttemptWithInput /\ plan = "free" /\ StoredCount = JNum(FREE_DAILY_LIMIT)) =>
        TurnedAway
    ]_vars

\* C12 amended: with a free-plan record whose count is DAILY_LIMIT and whose
\* date is today, QuotaCheck rejects an attempt; a record of another day is
\* read as count 0 at startup, and the attempt that follows is admitted.
C12_FullRecordOfTodayRejects ==
  /\ [][ (AttemptWithInput /\ plan = "free" /\ StoredCount = JNum(FREE_DAILY_LIMIT)
          /\ ~StoredOnAnotherDay) =>
           TurnedAway
       ]_vars
  /\ [][ (Mount /\ StoredCount = JNum(FREE_DAILY_LIMIT) /\ StoredOnAnotherDay) =>
           /\ dailyCount' = 0
           /\ canGenerate(plan', dailyCount')
       ]_vars
  /\ [][ (AttemptWithInput /\ plan = "free" /\ StoredCount = JNum(FREE_DAILY_LIMIT)
          /\ StoredOnAnotherDay /\ dailyCount = 0) =>
           Len(inflight') = Len(inflight) + 1
       ]_vars

\* yesterday's full record is still stored and an attempt is out
C12_Witness ==
  /\ plan = "free"
  /\ usageStore = UsageDoc(0, FREE_DAILY_LIMIT)
  /\ today = 1
  /\ dailyCount = 0
  /\ Len(inflight) = 1

\* C13: while the plan is pro QuotaCheck never rejects, and a generation that
\* commits while the plan is pro leaves the in-memory usage count and the
\* persisted usage record unchanged, also when the plan was switched to pro
\* while the request was in flight.
C13_ProNeverCounts ==
  [][ plan = "pro" =>
        /\ (ClickGenerate /\ ~loading /\ Trim(idea) # <<>>) =>
             Len(inflight') = Len(inflight) + 1
        /\ \A r \in Responses :
             (Ends(r) /\ IsSuccess(r)) => UNCHANGED <<dailyCount, usageStore>>
    ]_vars

\* C14: after a successful generation under the free plan the persisted
\* record is {date: today, count: c + 1}, c being today's effective count
\* before it (0 when the stored date is not today), and the in-memory count
\* equals the persisted count.
C14_RecordAfterSuccess ==
  [][ \A r \in Responses :
        (Ends(r) /\ IsSuccess(r) /\ plan = "free" /\ inflight[1].plan = "free") =>
          LET c == readUsage(usageStore, today)
          IN  /\ usageStore' = UsageDoc(today, c + 1)
              /\ dailyCount' = c + 1
    ]_vars

\* the persisted usage record is absent, unparseable or of the wrong shape,
\* lacks its date, or carries a count that is no number or is negative
Malformed(store) ==
  \/ store.t # "obj"
  \/ ~HasKey(store, "date")
  \/ ~IsString(Get(store, "date"))
  \/ Get(store, "count").t # "num"
  \/ Get(store, "count").v < 0

\* C15: reading a malformed persisted usage record raises nothing and yields
\* the count 0: the page opens without a message and the user is not blocked.
C15_MalformedUsageReadsZero ==
  /\ [](Malformed(usageStore) => readUsage(usageStore, today) = 0)
  /\ [][ (Mount /\ Malformed(usageStore)) =>
           /\ dailyCount' = 0
           /\ error' = <<>>
           /\ canGenerate(plan', dailyCount')
       ]_vars

\* an attempt is out while storage still holds the record with count -1
C15_Witness ==
  /\ usageStore = UsageDoc(1, -1)
  /\ dailyCount = 0
  /\ plan = "free"
  /\ Len(inflight) = 1

\* the entries of a list, its saved ones, its non-saved ones
Range(items) == {items[k] : k \in 1..Len(items)}

Saved(entries) == {e \in entries : e.saved}

NonSaved(entries) == {e \in entries : ~e.saved}

\* the n entries of a set that were created last
MostRecent(entries, n) ==
  {e \in entries : Cardinality({f \in entries : f.createdAt > e.createdAt}) < n}

\* the list out keeps every saved entry of cand and, of the non-saved ones,
\* at most FREE_HISTORY_LIMIT, all among the most recent of cand
Retained(cand, out) ==
  /\ Saved(cand) \subseteq Range(out)
  /\ Cardinality(NonSaved(Range(out))) <= FREE_HISTORY_LIMIT
  /\ NonSaved(Range(out)) \subseteq MostRecent(NonSaved(cand), FREE_HISTORY_LIMIT)

\* the entry a commit has just created
Appended == {e \in Range(history') : e.id = nextId}

\* the step is a commit of the suspended attempt
Commits == \E r \in Responses : Ends(r) /\ IsSuccess(r)

\* C16: when the plan is free after an operation that rewrites the history
\* (append, toggleSaved, clearUnsaved, plan switch), the history holds all
\* saved entries and at most FREE_HISTORY_LIMIT non-saved ones, those being
\* the most recent non-saved ones by createdAt.
C16_RetentionUnderFree ==
  [][ plan' = "free" =>
        /\ TogglePlan => Retained(Range(history), history')
        /\ \A e \in Range(history) :
             toggleSaved(e.id) => Retained(Range(FlipSaved(history, e.id)), history')
        /\ ClearAllHistory => Retained(Saved(Range(history)), history')
        /\ Commits => Retained(Range(history) \cup Appended, history')
    ]_vars

\* the history holds the long stored list under the free plan
FifteenUnsaved == plan = "free" /\ history = StoredLongHistory

\* the entries retention is about to discard from the long stored list
DiscardCandidates ==
  Range(StoredLongHistory) \ MostRecent(Range(StoredLongHistory), FREE_HISTORY_LIMIT)

\* exactly FREE_HISTORY_LIMIT non-saved entries remain, the most recent of cand
TenMostRecentRemain(cand) ==
  /\ Cardinality(NonSaved(Range(history'))) = FREE_HISTORY_LIMIT
  /\ NonSaved(Range(history')) = MostRecent(NonSaved(cand), FREE_HISTORY_LIMIT)

\* saving a discard candidate keeps it, saved
SavedCandidateSurvives ==
  \A e \in DiscardCandidates :
    toggleSaved(e.id) => [e EXCEPT !.saved = TRUE] \in Range(history')

\* C17 as stated: from 15 non-saved and 0 saved entries under the free plan,
\* after append, toggleSaved, delete or clearUnsaved exactly 10 non-saved
\* entries remain, the 10 most recent by createdAt; saving a discard
\* candidate makes it survive.
C17_AnyMutationLeavesTen ==
  [][ FifteenUnsaved =>
        /\ (Commits /\ inflight[1].plan = "free" /\ inflight[1].history = history) =>
             TenMostRecentRemain(Range(history) \cup Appended)
        /\ \A e \in Range(history) :
             /\ toggleSaved(e.id) =>
                  TenMostRecentRemain(Range(FlipSaved(history, e.id)))
             /\ deleteHistoryItem(e.id) =>
                  TenMostRecentRemain(Range(RemoveId(history, e.id)))
        /\ ClearAllHistory => TenMostRecentRemain(Range(history))
        /\ SavedCandidateSurvives
    ]_vars

\* C17 amended: from 15 non-saved and 0 saved entries under the free plan,
\* after append or toggleSaved exactly 10 non-saved entries remain, the 10
\* most recent by createdAt; delete removes the named entry and no other;
\* clearUnsaved removes every non-saved entry; saving a discard candidate
\* makes it survive.
C17_AppendOrToggleLeavesTen ==
  [][ FifteenUnsaved =>
        /\ (Commits /\ inflight[1].plan = "free" /\ inflight[1].history = history) =>
             TenMostRecentRemain(Range(history) \cup Appended)
        /\ \A e \in Range(history) :
             /\ toggleSaved(e.id) =>
                  TenMostRecentRemain(Range(FlipSaved(history, e.id)))
             /\ deleteHistoryItem(e.id) =>
                  Range(history') = Range(history) \ {e}
        /\ ClearAllHistory => history' = <<>>
        /\ SavedCandidateSurvives
    ]_vars

\* the twelfth stored entry has been starred in time: it is kept, saved,
\* next to the ten newest
C17_Witness ==
  /\ plan = "free"
  /\ [StoredRow(12) EXCEPT !.saved = TRUE] \in Range(history)
  /\ NonSaved(Range(history)) = {StoredRow(k) : k \in 1..FREE_HISTORY_LIMIT}

\* C18: a saved entry stays in the history, saved, until the user unsaves or
\* deletes it: no append, retention pass, clearUnsaved, plan switch or commit
\* of a generation that was in flight when it was saved removes it or resets
\* its flag.
C18_SavedStays ==
  [][ \A e \in Saved(Range(history)) :
        (~toggleSaved(e.id) /\ ~deleteHistoryItem(e.id)) =>
          /\ e \in Range(history')
          /\ e \in Range(LoadHistory(historyStore'))
    ]_vars

\* the ids the history has held so far: the stored entry's and those issued
KnownIds == {StoredItem.id} \cup (1..(nextId - 1))

\* C19: after delete(id) no entry with that id appears again in the
\* in-memory or the persisted history, also when a request that was in flight
\* during the delete commits later. (In Spec an entry leaves the history only
\* by delete, so a known id that is not in the history is a deleted one.)
C19_DeletedStaysDeleted ==
  [][ \A id \in KnownIds :
        (id \notin IdsOf(history) /\ id \notin IdsOf(LoadHistory(historyStore))) =>
          /\ id \notin IdsOf(history')
          /\ id \notin IdsOf(LoadHistory(historyStore'))
    ]_vars

\* C20: no step that ends under the pro plan discards a history entry, an
\* explicit delete or clearUnsaved apart: appending, toggling saved and
\* switching the plan to pro keep every existing entry.
C20_ProKeepsEverything ==
  [][ plan' = "pro" =>
        \A e \in Range(history) :
          (~deleteHistoryItem(e.id) /\ ~ClearAllHistory) => e.id \in IdsOf(history')
    ]_vars

\* the list without the entries whose id is id, the others as they were
Without(items, id) == SelectSeq(items, LAMBDA h : h.id # id)

\* C22: delete(id) removes exactly the entry with that id and leaves every
\* other entry present, unchanged and in the same relative order, under
\* either plan and with no retention applied; the active selection is cleared
\* if the deleted entry was the active one, else unchanged.
C22_DeleteRemovesOne ==
  [][ \A e \in Range(history) :
        deleteHistoryItem(e.id) =>
          /\ history' = Without(history, e.id)
          /\ Len(history') = Len(history) - 1
          /\ LoadHistory(historyStore') = history'
          /\ activeHistoryId' = IF activeHistoryId = e.id THEN NoId ELSE activeHistoryId
          /\ plan' = plan
    ]_vars

\* under the free plan the opened row has been deleted from the uncut list:
\* fourteen non-saved entries are left and nothing is selected
C22_Witness ==
  /\ plan = "free"
  /\ Len(history) = StoredRows - 1
  /\ Cardinality(NonSaved(Range(history))) > FREE_HISTORY_LIMIT
  /\ idea = <<"plan">>
  /\ activeHistoryId = NoId

\* C23: after clearUnsaved the history consists of exactly the entries that
\* were saved before the call, each unchanged, and holds no entry with
\* saved = false, under both plans.
C23_ClearKeepsSaved ==
  [][ ClearAllHistory =>
        /\ Range(history') = Saved(Range(history))
        /\ Len(history') = Cardinality(Saved(Range(history)))
        /\ NonSaved(Range(history')) = {}
        /\ LoadHistory(historyStore') = history'
    ]_vars

\* the one starred entry is all that is left of the panel
C23_Witness ==
  /\ Len(history) = 1
  /\ history[1].saved
  /\ showUpgrade
  /\ activeHistoryId = NoId

\* no entry of the list is newer than the one before it
IsSortedDesc(items) ==
  \A i \in 1..(Len(items) - 1) : items[i].createdAt >= items[i + 1].createdAt

\* C21: in every state, so after every mutation (append, toggleSaved, delete,
\* clearUnsaved, plan switch), the in-memory and the persisted history are
\* sorted in descending order of createdAt; entries of equal createdAt come
\* in one order, the same in memory and in storage.
C21_SortedNewestFirst ==
  /\ IsSortedDesc(history)
  /\ IsSortedDesc(LoadHistory(historyStore))
  /\ LoadHistory(historyStore) = history

\* the new entry stands before the stored one created in the same
\* millisecond, and the two older entries of one instant follow
C21_Witness ==
  /\ Len(history) = 4
  /\ history[1].id = 1
  /\ history[2].id = 101
  /\ history[1].createdAt = history[2].createdAt
  /\ history[3].createdAt = history[4].createdAt

\* the entry passes the tab filter
PassesTab(e, tab) == tab = "saved" => e.saved

\* C24 as stated: list(filter, query) returns, in history order, exactly the
\* entries that pass the tab filter and, when the query is non-empty, whose
\* inputText concatenated with outputText contains the query as a
\* case-insensitive substring; with 'all' and no query, the whole history.
C24_ListOfConcatenation ==
  /\ filteredHistory =
       SelectSeq(history,
         LAMBDA e : /\ PassesTab(e, historyTab)
                    /\ query # <<>> =>
                         includes(toLowerCase(e.input \o e.output), toLowerCase(query)))
  /\ (historyTab = "all" /\ query = <<>>) => filteredHistory = history

\* C24 amended: list(filter, query) returns, in history order, exactly the
\* entries that pass the tab filter and, when the trimmed query is non-empty,
\* whose inputText and outputText joined by a line break contain the trimmed
\* query as a case-insensitive substring; with 'all' and a query that is empty
\* once trimmed, the whole history.
C24_ListOfJoinedLines ==
  /\ filteredHistory =
       SelectSeq(history,
         LAMBDA e : /\ PassesTab(e, historyTab)
                    /\ Trim(query) # <<>> =>
                         includes(toLowerCase(e.input \o <<"\n">> \o e.output),
                                  toLowerCase(Trim(query))))
  /\ (historyTab = "all" /\ Trim(query) = <<>>) => filteredHistory = history

\* the search for "A" lists the entry whose input is "A" and the one whose
\* output is "a", and leaves out the third
C24_Witness ==
  /\ historyTab = "all"
  /\ query = <<"A">>
  /\ Len(history) = 3
  /\ IdsOf(filteredHistory) = {101, 103}

\* C25: writing a history list to durable storage, reloading it and listing
\* it with no filter and no query yields the same entries with the same field
\* values in the same order.
C25_HistoryRoundTrip ==
  /\ [](filteredHistoryOf(LoadHistory(writeHistory(history)), "all", <<>>) = history)
  /\ [][ Mount => filteredHistoryOf(history', historyTab', query') = history ]_vars

\* storage holds what the panel holds after the preset entry was starred and
\* another entry deleted
C25_Witness ==
  /\ Len(history) = 2
  /\ history[1].preset = "business"
  /\ history[1].followUps # <<>>
  /\ history[1].saved
  /\ historyStore = writeHistory(history)
  /\ filteredHistory = history

\* the stored history text is no JSON, no array, or an array holding an
\* element that is no object
IsCorruptHistory(store) ==
  \/ store.t = "garbage"
  \/ store.t # "absent" /\ ~IsArray(store)
  \/ IsArray(store) /\ \E i \in 1..Len(store.v) : store.v[i].t # "obj"

\* C26: loading a corrupt persisted history never fails and yields the empty
\* history: a stored value that is no array, or an array with elements that
\* are no objects, gives an empty list.
C26_CorruptHistoryLoadsEmpty ==
  IsCorruptHistory(historyStore) =>
    /\ readHistory(historyStore) = <<>>
    /\ history = <<>>

\* every key the normalizer reads a field from
FieldKeys ==
  { "prompt", "AI Role", "role", "ai_role", "Context", "context", "Task", "task",
    "Constraints", "constraints", "Output Format", "output_format", "outputFormat",
    "Follow-up Questions", "follow_up_questions", "followUps" }

\* no field of the payload yields text
NoFieldText(d) == \A k \in FieldKeys : ~Truthy(Get(d, k))

\* C27: the normalizer is total and never returns an empty prompt: for every
\* JSON payload of a success answer it returns, without throwing, a non-empty
\* promptText and a sequence of follow-up questions, and when no field yields
\* text the promptText is the rendering of the whole payload.
C27_NormalizerTotal ==
  [][ \A d \in Payloads :
        AnswerWith(d) =>
          /\ error' = <<>>
          /\ IsString(Get(result', "prompt"))
          /\ Get(result', "prompt").v # <<>>
          /\ IsArray(Get(result', "follow_up_questions"))
          /\ history' # <<>>
          /\ history'[1].output = Get(result', "prompt").v
          /\ (Truthy(d) /\ NoFieldText(d)) => Get(result', "prompt").v = Stringify(d, 0)
    ]_vars

\* C28 as stated: a non-empty string under 'prompt' is returned trimmed as
\* the promptText, whatever the other fields hold.
C28_FlatPromptWins ==
  [][ \A d \in Payloads :
        (AnswerWith(d) /\ IsString(Get(d, "prompt")) /\ Get(d, "prompt").v # <<>>) =>
          /\ Get(result', "prompt") = JStr(Trim(Get(d, "prompt").v))
          /\ history'[1].output = Trim(Get(d, "prompt").v)
    ]_vars

\* C28 amended: a string under 'prompt' that is non-empty once trimmed is
\* returned trimmed as the promptText, whatever the other fields hold: the
\* flat prompt takes precedence over the structured fields.
C28_TrimmedFlatPromptWins ==
  [][ \A d \in Payloads :
        (AnswerWith(d) /\ IsString(Get(d, "prompt")) /\ Trim(Get(d, "prompt").v) # <<>>) =>
          /\ Get(result', "prompt") = JStr(Trim(Get(d, "prompt").v))
          /\ history'[1].output = Trim(Get(d, "prompt").v)
    ]_vars

\* the answer held the prompt "P" next to a role, a context, a task,
\* constraints and an output format: the prompt text is "P"
C28_Witness ==
  /\ Get(result, "prompt") = JStr(<<"P">>)
  /\ Get(result, "role") = JStr(<<"R">>)
  /\ Get(result, "constraints") = JStr(<<"N">>)
  /\ history # <<>>
  /\ history[1].output = <<"P">>

\* the key variants of the follow-up questions
FollowUpKeys == <<"follow_up_questions", "Follow-up Questions", "followUps">>

\* the key variants under which the payload holds an array
ArrayVariants(d) == { i \in 1..Len(FollowUpKeys) : IsArray(Get(d, FollowUpKeys[i])) }

\* the string elements, in order, of a JSON array
StringElements(a) ==
  LET strs == SelectSeq(a.v, LAMBDA e : e.t = "str")
  IN  [i \in 1..Len(strs) |-> strs[i].v]

\* the questions of the first key variant that holds an array, none when no
\* variant holds one
QuestionsIn(d) ==
  IF ArrayVariants(d) = {} THEN <<>>
  ELSE LET i == CHOOSE k \in ArrayVariants(d) : \A m \in ArrayVariants(d) : k <= m
       IN  StringElements(Get(d, FollowUpKeys[i]))

\* C29: the extracted followUpQuestions are exactly the string elements, in
\* order, of the follow-up array found under the key variants; when no
\* variant holds an array the result is empty, and an array held by any
\* variant is found.
C29_FollowUpsExtracted ==
  [][ \A d \in Payloads :
        (AnswerWith(d) /\ ~toCopyReadyPromptThrows(d)) =>
          /\ history'[1].followUps = QuestionsIn(d)
          /\ Get(result', "follow_up_questions") =
               JArr([i \in 1..Len(QuestionsIn(d)) |-> JStr(QuestionsIn(d)[i])])
    ]_vars

\* the semantic fields of a reconstructed prompt: the ordered alias list, the
\* heading of the section, and whether the value is a text or a text or list
SemanticFields ==
  << [aliases |-> <<"AI Role", "role", "ai_role">>, label |-> "AI Role:", text |-> TRUE],
     [aliases |-> <<"Context", "context">>, label |-> "Context:", text |-> TRUE],
     [aliases |-> <<"Task", "task">>, label |-> "Task:", text |-> TRUE],
     [aliases |-> <<"Constraints", "constraints">>, label |-> "Constraints:", text |-> FALSE],
     [aliases |-> <<"Output Format", "output_format", "outputFormat">>,
      label |-> "Output Format:", text |-> FALSE] >>

\* the value is non-empty: a text with more than blanks for a text field,
\* anything but null, "", 0 and false for a field that may hold a list
NonEmptyFor(f, v) ==
  IF f.text THEN IsString(v) /\ Trim(v.v) # <<>> ELSE Truthy(v)

\* the aliases of the field under which the payload holds a non-empty value
NonEmptyAliases(d, f) ==
  { i \in 1..Len(f.aliases) : NonEmptyFor(f, Get(d, f.aliases[i])) }

\* the section of the field as it stands in the prompt text: the heading and
\* below it the value, for a list its first item
SectionText(f, v) ==
  Trim(<<f.label, "\n">>
       \o (IF f.text THEN Trim(v.v)
           ELSE IF IsArray(v)
                THEN (IF v.v = <<>> THEN <<>> ELSE <<"-", " ">> \o ToStr(v.v[1]))
                ELSE ToStr(v)))

\* the prompt text is reconstructed from the fields of the payload
FromFields(d) ==
  /\ d.t = "obj"
  /\ ~(IsString(Get(d, "prompt")) /\ Trim(Get(d, "prompt").v) # <<>>)
  /\ ~toCopyReadyPromptThrows(d)

\* C30: in a prompt reconstructed from fields, each semantic field (role,
\* context, task, constraints, output format) shows the value of the first
\* alias of its ordered list whose value is non-empty, so an empty value under
\* an earlier alias hides no later one, and a field without a non-empty alias
\* is left out of the prompt text.
C30_FirstNonEmptyAlias ==
  [][ \A d \in Payloads :
        (AnswerWith(d) /\ FromFields(d)) =>
          \A n \in 1..Len(SemanticFields) :
            LET f == SemanticFields[n]
                found == NonEmptyAliases(d, f)
                first == CHOOSE k \in found : \A m \in found : k <= m
            IN  IF found = {}
                THEN ~includes(history'[1].output, <<f.label>>)
                ELSE includes(history'[1].output, SectionText(f, Get(d, f.aliases[first])))
    ]_vars

\* the text fields of the collaborator's response schema
SchemaTextKeys == <<"aiRole", "context", "task", "constraints", "outputFormat">>

\* the payload has the multi-field shape of the response schema
IsSchemaShape(d) ==
  /\ d.t = "obj"
  /\ ~HasKey(d, "prompt")
  /\ IsString(Get(d, "title"))
  /\ \A n \in 1..Len(SchemaTextKeys) : IsString(Get(d, SchemaTextKeys[n]))
  /\ IsArray(Get(d, "followUpQuestions"))
  /\ \A i \in 1..Len(Get(d, "followUpQuestions").v) :
       IsString(Get(d, "followUpQuestions").v[i])

\* C31: for a success answer in the multi-field shape of the response schema
\* every non-empty field is reflected in the normalized result: the role text
\* and the other field texts appear in promptText, and followUpQuestions is
\* the payload's followUpQuestions array.
C31_SchemaShapeReflected ==
  [][ \A d \in Payloads :
        (AnswerWith(d) /\ IsSchemaShape(d)) =>
          /\ \A n \in 1..Len(SchemaTextKeys) :
               Trim(Get(d, SchemaTextKeys[n]).v) # <<>> =>
                 includes(history'[1].output, Trim(Get(d, SchemaTextKeys[n]).v))
          /\ history'[1].followUps = StringElements(Get(d, "followUpQuestions"))
    ]_vars

\* the entry e as it stands after its saved flag was flipped
Flipped(e) == [e EXCEPT !.saved = ~e.saved]

\* C32 as stated: toggleSaved(id) flips the saved flag of exactly the entry
\* with that id and changes no other entry; marking an entry saved removes no
\* entry; unsaving an entry under the free plan re-applies retention, so the
\* entry is kept if and only if it is among the 10 most recent non-saved
\* entries.
C32_ToggleFlipsOne ==
  [][ \A e \in Range(history) :
        toggleSaved(e.id) =>
          /\ \A x \in Range(history') :
               \E y \in Range(history) :
                 x = IF y.id = e.id THEN Flipped(y) ELSE y
          /\ ~e.saved => IdsOf(history') = IdsOf(history)
          /\ (e.saved /\ plan = "free") =>
               (e.id \in IdsOf(history') <=>
                  Flipped(e) \in MostRecent(NonSaved(Range(history)) \cup {Flipped(e)},
                                            FREE_HISTORY_LIMIT))
    ]_vars

\* the entries of the history after the flag of e was flipped
AfterFlip(e) == (Range(history) \ {e}) \cup {Flipped(e)}

\* C32 amended: toggleSaved(id) flips the saved flag of exactly the entry
\* with that id and changes no other entry; under pro no entry is removed;
\* under free retention is re-applied after the flip in either direction, so
\* every saved entry, the one just marked included, is kept and of the
\* non-saved entries exactly the 10 most recent: a just-unsaved entry is kept
\* if and only if it is among them.
C32_ToggleFlipsOneThenRetains ==
  [][ \A e \in Range(history) :
        toggleSaved(e.id) =>
          /\ Range(history') \subseteq AfterFlip(e)
          /\ plan = "pro" => Range(history') = AfterFlip(e)
          /\ plan = "free" =>
               Range(history') =
                 Saved(AfterFlip(e))
                 \cup MostRecent(NonSaved(AfterFlip(e)), FREE_HISTORY_LIMIT)
          /\ LoadHistory(historyStore') = history'
    ]_vars

\* under free the second row of the uncut list was starred: it is kept with
\* the ten most recent non-saved entries, the four oldest are gone
C32_Witness ==
  /\ plan = "free"
  /\ Len(history) = FREE_HISTORY_LIMIT + 1
  /\ {e.id : e \in Saved(Range(history))} = {102}
  /\ IdsOf(history) = 101..111

\* the step is a click on the enabled Generate button with an input that is
\* empty once trimmed
RejectsEmptyInput ==
  /\ ClickGenerate
  /\ ~GenerateDisabled(loading, plan, remaining(plan, dailyCount))
  /\ Trim(idea) = <<>>

\* C33: rejecting an attempt whose trimmed input is empty changes no state
\* other than the surfaced message: the displayed result, the selected preset,
\* the active history selection, the upgrade banner flag and the busy flag are
\* unchanged.
C33_EmptyRejectionKeepsState ==
  [][ RejectsEmptyInput =>
        /\ error' = MsgTypeSomething
        /\ result' = result
        /\ preset' = preset
        /\ activeHistoryId' = activeHistoryId
        /\ showUpgrade' = showUpgrade
        /\ loading' = loading
    ]_vars

\* the two entries agree in everything but the saved flag
SameButSaved(x, y) == [x EXCEPT !.saved = FALSE] = [y EXCEPT !.saved = FALSE]

\* C34: history entries are immutable apart from the saved flag: an entry
\* that is in the history before and after a step (append, toggleSaved, delete
\* of another entry, clearUnsaved, plan switch, generation commit) has the same
\* createdAt, preset, input, output and followUps.
C34_EntriesImmutable ==
  [][ \A x \in Range(history) :
        \A y \in Range(history') : y.id = x.id => SameButSaved(x, y)
    ]_vars

\* a commit has appended an entry to a list in which an older entry is
\* starred; the starred entry and the ten most recent others are there
C34_Witness ==
  /\ 1 \in IdsOf(history)
  /\ 102 \in {e.id : e \in Saved(Range(history))}
  /\ Len(history) = FREE_HISTORY_LIMIT + 1
  /\ inflight = <<>>

\* C35: after every completed mutating operation (generation commit,
\* toggleSaved, delete, clearUnsaved, plan switch), also when a request was in
\* flight meanwhile, the persisted history is the in-memory history: storage
\* holds the serialization of the list in memory and loads back as that list.
C35_StoreHoldsMemory ==
  /\ historyStore = writeHistory(history)
  /\ IdsOf(LoadHistory(historyStore)) = IdsOf(history)
  /\ Len(LoadHistory(historyStore)) = Len(history)

\* under pro a commit has appended an entry after the starred entry was
\* deleted, and no request is out: storage holds the same three entries
C35_Witness ==
  /\ plan = "pro"
  /\ inflight = <<>>
  /\ IdsOf(history) = {1, 101, 103}
  /\ IdsOf(LoadHistory(historyStore)) = {1, 101, 103}

\* the ids of the presets gated behind the paid plan
ProOnlyIds == {p.id : p \in {q \in Presets : q.proOnly}}

\* C36: while the plan is free a pro-only preset is never the selected one:
\* applying a pro-only preset under free is rejected with the upgrade prompt
\* and leaves the selected preset and the command text unchanged, and no other
\* operation (switch from pro to free, loading a history entry) leaves a
\* pro-only preset selected under free.
C36_NoProPresetUnderFree ==
  /\ [](plan = "free" => preset \notin ProOnlyIds)
  /\ [][ \A p \in Presets :
           (applyPreset(p) /\ p.proOnly /\ plan = "free") =>
             /\ showUpgrade'
             /\ error' = MsgProOnly
             /\ preset' = preset
             /\ idea' = idea
       ]_vars

\* C37: in every reachable state the active history selection is empty or the
\* id of an entry of the history: no toggleSaved, retention pass,
\* clearUnsaved, delete or plan switch leaves it pointing at a removed entry.
C37_SelectionIsPresent ==
  activeHistoryId = NoId \/ activeHistoryId \in IdsOf(history)

\* the prompt text is reconstructed from fields and lists follow-up questions
ListsFollowUps(d, text) ==
  /\ FromFields(d)
  /\ includes(text, <<"Follow-up Questions (max 2):">>)

\* the follow-up section as the prompt text shows it for the value v: the
\* heading, then one item per element of a list, or the value itself
FollowUpSection(v) ==
  Trim(IF IsArray(v)
       THEN Join(<< <<"Follow-up Questions (max 2):">> >>
                 \o [i \in 1..Len(v.v) |-> <<"-", " ">> \o ToStr(v.v[i])], <<"\n">>)
       ELSE <<"Follow-up Questions (max 2):", "\n">> \o ToStr(v))

\* C38: when promptText is reconstructed from fields and lists follow-up
\* questions, the questions it lists come from the same payload key as the
\* extracted followUpQuestions: there is one key variant whose value is both
\* the section shown in the text and the source of the extracted list, also
\* for a payload with different arrays under 'follow_up_questions' and
\* 'Follow-up Questions'.
C38_SameFollowUpSource ==
  [][ \A d \in Payloads :
        (AnswerWith(d) /\ ListsFollowUps(d, history'[1].output)) =>
          \E n \in 1..Len(FollowUpKeys) :
            LET v == Get(d, FollowUpKeys[n])
            IN  /\ Truthy(v)
                /\ includes(history'[1].output, FollowUpSection(v))
                /\ history'[1].followUps = IF IsArray(v) THEN StringElements(v) ELSE <<>>
    ]_vars

====
